---- MODULE Spec2Model ----
(***************************************************************************)
(* Itinerary optimisation engine of optimize_london_itinerary.py:          *)
(* deduplication of locations across days, injection of missing            *)
(* essentials, computation of a day's time bounds and synthesis of the     *)
(* day's schedule of segments.                                             *)
(*                                                                         *)
(* Coordinates are integers in units of 1e-4 degree (the catalog gives     *)
(* four decimals), distances are integers in centimetres, times are        *)
(* minutes from midnight.  A time string is a sequence of one-character    *)
(* strings.                                                                *)
(***************************************************************************)
EXTENDS Integers, Sequences, FiniteSets, TLC

(***************************************************************************)
(* Generic helpers on sequences                                            *)
(***************************************************************************)
Range(s) == {s[i] : i \in 1..Len(s)}

Contains(s, x) == \E i \in 1..Len(s) : s[i] = x

RECURSIVE Without(_, _)
\* the list comprehension [loc for loc in s if loc != x]
Without(s, x) ==
  IF s = <<>> THEN <<>>
  ELSE IF Head(s) = x THEN Without(Tail(s), x)
       ELSE <<Head(s)>> \o Without(Tail(s), x)

RECURSIVE RemoveFirst(_, _)
\* list.remove(x): removes the first occurrence only
RemoveFirst(s, x) ==
  IF s = <<>> THEN <<>>
  ELSE IF Head(s) = x THEN Tail(s)
       ELSE <<Head(s)>> \o RemoveFirst(Tail(s), x)

Max(a, b) == IF a >= b THEN a ELSE b

Min(a, b) == IF a <= b THEN a ELSE b

Abs(a) == IF a < 0 THEN -a ELSE a

(***************************************************************************)
(* Location catalog and configuration tables                               *)
(***************************************************************************)
_loc(name, lat, lon, category, duration) ==
  [name |-> name, lat |-> lat, lon |-> lon, category |-> category,
   default_duration |-> duration]

LOCATION_LIBRARY ==
  <<
    _loc("Heathrow Airport", 514700, -4543, "transport", 30),
    _loc("Paddington Station", 515154, -1754, "transport", 15),
    _loc("Southwark Station", 515046, -1050, "transport", 10),
    _loc("citizenM London Bankside", 515055, -993, "hotel", 30),
    _loc("South Bank Promenade", 515073, -995, "walk", 60),
    _loc("London Eye", 515033, -1196, "landmark", 60),
    _loc("Carnaby Street", 515135, -1394, "walk", 45),
    _loc("Oxford Circus", 515150, -1410, "landmark", 10),
    _loc("Regent Street", 515145, -1420, "walk", 30),
    _loc("Oxford Street", 515154, -1410, "walk", 30),
    _loc("Covent Garden", 515129, -1226, "landmark", 45),
    _loc("Seven Dials Market", 515135, -1258, "food", 60),
    _loc("Soho", 515136, -1365, "walk", 60),
    _loc("Liberty London", 515136, -1406, "shopping", 45),
    _loc("Mayfair Arcades", 515090, -1488, "walk", 60),
    _loc("Harrods", 514996, -1635, "shopping", 75),
    _loc("New Bond Street", 515123, -1497, "shopping", 45),
    _loc("Sketch Mayfair", 515114, -1417, "food", 75),
    _loc("Buckingham Palace", 515014, -1419, "landmark", 40),
    _loc("St James's Park", 515010, -1365, "park", 40),
    _loc("Hyde Park Winter Wonderland", 515073, -1668, "experience", 150),
    _loc("Hyde Park", 515073, -1657, "park", 60),
    _loc("Bavarian Village", 515071, -1689, "food", 60),
    _loc("Alpen Village", 515080, -1698, "food", 45),
    _loc("Bankside Pier", 515079, -980, "transport", 10),
    _loc("Westminster Pier", 515010, -1230, "transport", 10),
    _loc("Palace of Westminster", 514995, -1245, "landmark", 30),
    _loc("Buckingham Gate", 514990, -1414, "transfer", 15),
    _loc("Trafalgar Square", 515080, -1281, "landmark", 45),
    _loc("National Gallery", 515089, -1283, "museum", 60),
    _loc("Fortnum & Mason", 515097, -1396, "shopping", 60),
    _loc("Piccadilly Arcade", 515080, -1380, "shopping", 40),
    _loc("British Museum", 515194, -1269, "museum", 90),
    _loc("St Martin-in-the-Fields", 515091, -1269, "landmark", 30),
    _loc("St Paul's Cathedral", 515138, -984, "landmark", 60),
    _loc("Sky Garden", 515107, -830, "landmark", 45),
    _loc("Leadenhall Market", 515123, -830, "walk", 40),
    _loc("Borough Market", 515054, -911, "food", 60),
    _loc("The Shard", 515045, -865, "landmark", 40),
    _loc("Tower Bridge", 515055, -754, "landmark", 45),
    _loc("Tower of London", 515081, -759, "landmark", 60),
    _loc("Camden Market", 515416, -1460, "experience", 90),
    _loc("Seabird Rooftop", 515084, -1002, "food", 90),
    _loc("Hawksmoor Borough", 515059, -919, "food", 90),
    _loc("OXO Tower", 515076, -1117, "food", 90),
    _loc("Oblix at The Shard", 515045, -865, "food", 120),
    _loc("The Gentlemen Baristas Bankside", 515066, -999, "food", 30),
    _loc("Somerset House", 515113, -1163, "landmark", 45)
  >>

\* {loc.name: loc for loc in library}: the last entry of a name stays
MapByName(library) ==
  [n \in {library[i].name : i \in 1..Len(library)} |->
     library[CHOOSE i \in 1..Len(library) :
               /\ library[i].name = n
               /\ \A j \in (i+1)..Len(library) : library[j].name # n]]

LOCATION_MAP == MapByName(LOCATION_LIBRARY)

\* LOCATION_MAP.get(name) is not None
Known(name) == name \in DOMAIN LOCATION_MAP

HOTEL_NAME == "citizenM London Bankside"

Themes == {"arrival", "mayfair", "city", "departure"}

ESSENTIALS_BY_THEME ==
  (    "arrival" :>
       <<"citizenM London Bankside",
         "South Bank Promenade",
         "London Eye",
         "Carnaby Street",
         "Regent Street",
         "Covent Garden">>)
  @@ ("mayfair" :>
       <<"Soho",
         "Liberty London",
         "New Bond Street",
         "Fortnum & Mason",
         "Buckingham Palace",
         "St James's Park",
         "Hyde Park">>)
  @@ ("city" :>
       <<"South Bank Promenade",
         "London Eye",
         "Borough Market",
         "Westminster Pier",
         "Trafalgar Square",
         "Piccadilly Arcade",
         "Fortnum & Mason",
         "Harrods",
         "Tower Bridge",
         "Oblix at The Shard">>)
  @@ ("departure" :>
       <<"The Gentlemen Baristas Bankside",
         "citizenM London Bankside">>)

PREFERRED_ORDER ==
  (    "arrival" :>
       <<"Carnaby Street",
         "Regent Street",
         "Oxford Street",
         "Oxford Circus",
         "Covent Garden",
         "South Bank Promenade">>)
  @@ ("mayfair" :>
       <<"Soho",
         "Liberty London",
         "New Bond Street",
         "Fortnum & Mason",
         "Buckingham Palace",
         "St James's Park",
         "Hyde Park",
         "Hyde Park Winter Wonderland",
         "Bavarian Village",
         "Alpen Village">>)
  @@ ("city" :>
       <<"South Bank Promenade",
         "London Eye",
         "Borough Market",
         "Westminster Pier",
         "Trafalgar Square",
         "Piccadilly Arcade",
         "Fortnum & Mason",
         "Harrods",
         "Tower Bridge",
         "The Shard",
         "Oblix at The Shard">>)
  @@ ("departure" :>
       <<"The Gentlemen Baristas Bankside">>)

\* TRANSIT_OVERRIDES as a function on ordered pairs of names
TRANSIT_OVERRIDES ==
     (<<"Heathrow Airport", "Paddington Station">> :> 15)
  @@ (<<"Paddington Station", HOTEL_NAME>> :> 30)
  @@ (<<HOTEL_NAME, "Paddington Station">> :> 30)
  @@ (<<"Paddington Station", "Heathrow Airport">> :> 15)
  @@ (<<HOTEL_NAME, "Heathrow Airport">> :> 75)
  @@ (<<"Heathrow Airport", HOTEL_NAME>> :> 75)

EXCLUDED_CATEGORIES == {"museum"}

\* The catalog names n for which
\* any(keyword in n.lower() for keyword in UNWANTED_KEYWORDS) is true,
\* UNWANTED_KEYWORDS being ("cathedral", "church", "abbey").
UNWANTED_KEYWORDS == {"St Paul's Cathedral"}

DEDUP_WHITELIST ==
  {HOTEL_NAME, "Heathrow Airport", "Paddington Station", "Southwark Station",
   "South Bank Promenade", "Bankside Pier", "Westminster Pier"}

(***************************************************************************)
(* Geometry.  The source works in floating point.  Here a point is a pair  *)
(* <<lat, lon>> in micro-degrees and a distance is an integer number of    *)
(* centimetres.  haversine_km is computed in millimetres from the series   *)
(* of the haversine formula to the third order: the legs dy and dx of the  *)
(* equirectangular formula (a micro-degree of latitude is 111.194927 mm    *)
(* for the radius 6371 km, a micro-degree of longitude is that times the   *)
(* cosine of the mean latitude, linearised around 51.5 degrees), dx less   *)
(* the terms of sin(dlon/2) and of cos(lat1)cos(lat2), and the chord       *)
(* turned into the arc.  Over the catalog it is within 1 cm of the         *)
(* source's value, and the minutes derived from it are the source's for    *)
(* every pair of catalog names.  Squares of distances exceed the integers  *)
(* of 32 bits and are kept on two limbs.                                   *)
(***************************************************************************)
\* the natural number hi * 10^6 + lo_raw as a pair <<hi, lo>>, lo < 10^6
Wide(hi, lo_raw) == <<hi + (lo_raw \div 1000000), lo_raw % 1000000>>

WideAdd(p, q) == Wide(p[1] + q[1], p[2] + q[2])

WideLeq(p, q) == p[1] < q[1] \/ (p[1] = q[1] /\ p[2] <= q[2])

\* x * x for 0 <= x < 4 * 10^7
WideSquare(x) ==
  LET x1 == x \div 1000
      x0 == x % 1000
      c  == 2 * x1 * x0
  IN Wide(x1 * x1 + (c \div 1000), 1000 * (c % 1000) + x0 * x0)

\* x * y / 10^6 rounded to the nearest integer, for 0 <= x < 10^6 and
\* 0 <= y < 10^8
MulMillionth(x, y) ==
  LET x1 == x \div 1000
      x0 == x % 1000
      y1 == y \div 1000
      y0 == y % 1000
      m  == x1 * y0 + x0 * y1
  IN x1 * y1 + (m \div 1000)
       + ((1000 * (m % 1000) + x0 * y0 + 500000) \div 1000000)

RECURSIVE SqrtSearch(_, _, _)
\* the largest r in lo..hi with r * r <= n, n on two limbs
SqrtSearch(n, lo, hi) ==
  IF lo >= hi THEN lo
  ELSE LET mid == (lo + hi + 1) \div 2
       IN IF WideLeq(WideSquare(mid), n) THEN SqrtSearch(n, mid, hi)
          ELSE SqrtSearch(n, lo, mid - 1)

\* math.sqrt of n, n on two limbs, rounded to the nearest integer
RoundSqrt(n) ==
  LET r == SqrtSearch(n, 0, 40000000)
  IN IF WideLeq(WideAdd(WideSquare(r), Wide(0, r + 1)), n) THEN r + 1 ELSE r

\* a and b are <<lat, lon>> pairs; the result is in centimetres.  dy, dx
\* and r are in millimetres, cx and cphi in millionths of a millimetre.
haversine_km(a, b) ==
  LET dlat == Abs(a[1] - b[1])
      dlon == Abs(a[2] - b[2])
      off  == a[1] + b[1] - 2 * 51500000
      kx   == 69220469 - ((off * 7594) \div 10000)
      dy   == dlat * 111 + MulMillionth(dlat, 194927)
      dx   == MulMillionth(dlon, kx)
      cx   == (((dx \div 10000) * (dlon \div 1000) * (dlon \div 1000))
                 \div 10000) * 1269
      cphi == (((dx \div 10000) * (dlat \div 1000) * (dlat \div 1000))
                 \div 10000) * 9826
      dx2  == dx - ((cx + cphi + 500000) \div 1000000)
      r    == RoundSqrt(WideAdd(WideSquare(dy), WideSquare(dx2)))
      rk   == r \div 10000
      ca   == ((((rk * rk) \div 100) * rk) + 4870757) \div 9741514
  IN (r + ca + 5) \div 10

\* float("inf"), in centimetres
INF == 1000000000

\* (loc.lat, loc.lon) of a catalog name, in micro-degrees
PointOf(loc) == <<loc.lat * 100, loc.lon * 100>>

Point(name) == PointOf(LOCATION_MAP[name])

distance_between(location_name, point) ==
  IF ~Known(location_name) THEN INF
  ELSE haversine_km(Point(location_name), point)

distance_between_pair(a_name, b_name) ==
  IF a_name = b_name THEN 0
  ELSE IF ~Known(a_name) \/ ~Known(b_name) THEN 999 * 100000
  ELSE haversine_km(Point(a_name), Point(b_name))

RECURSIVE SumField(_, _)
\* the sum of one coordinate over the catalog names of a list
SumField(location_names, f) ==
  IF location_names = <<>> THEN 0
  ELSE (IF Known(Head(location_names))
        THEN LOCATION_MAP[Head(location_names)][f] ELSE 0)
       + SumField(Tail(location_names), f)

\* the mean <<lat, lon>> of the catalog names of the list, rounded to the
\* micro-degree; the hotel when the list has no catalog name
compute_centroid(location_names) ==
  LET count == Cardinality({i \in 1..Len(location_names) :
                              Known(location_names[i])})
      lat_sum == SumField(location_names, "lat") * 100
      lon_sum == SumField(location_names, "lon") * 100
  IN IF count = 0
     THEN Point(HOTEL_NAME)
     ELSE <<(2 * lat_sum + count) \div (2 * count),
            (2 * lon_sum + count) \div (2 * count)>>

WalkCategories == {"walk", "landmark", "shopping", "park"}

\* MinutesOver taking the speed from the category of the origin alone
MinutesOver_SpeedOfOrigin(a_name, b_name, distance) ==
  IF ~Known(a_name) \/ ~Known(b_name)
  THEN ((distance * 6) \div 45000) + 5
  ELSE Max((distance * 6) \div
             (IF LOCATION_MAP[a_name].category \in WalkCategories
              THEN 38000 ELSE 50000),
           8)

\* the minutes for a distance between two names
MinutesOver(a_name, b_name, distance) ==
  IF ~Known(a_name) \/ ~Known(b_name)
  THEN ((distance * 6) \div 45000) + 5
  ELSE Max((distance * 6) \div
             (IF /\ LOCATION_MAP[a_name].category \in WalkCategories
                 /\ LOCATION_MAP[b_name].category \in WalkCategories
              THEN 38000 ELSE 50000),
           8)

\* the minutes between two names, computed from the distance
TravelMinutes(a_name, b_name) ==
  MinutesOver(a_name, b_name, distance_between_pair(a_name, b_name))

\* TravelMinutes over the pairs of catalog names, tabulated once (merging
\* with the empty function yields the explicit table)
TravelTable ==
  [p \in (DOMAIN LOCATION_MAP) \X (DOMAIN LOCATION_MAP) |->
     TravelMinutes(p[1], p[2])] @@ <<>>

estimate_travel_minutes(a_name, b_name) ==
  IF a_name = b_name THEN 0
  ELSE IF <<a_name, b_name>> \in DOMAIN TRANSIT_OVERRIDES
       THEN TRANSIT_OVERRIDES[<<a_name, b_name>>]
  ELSE IF <<b_name, a_name>> \in DOMAIN TRANSIT_OVERRIDES
       THEN TRANSIT_OVERRIDES[<<b_name, a_name>>]
  ELSE IF Known(a_name) /\ Known(b_name)
       THEN TravelTable[<<a_name, b_name>>]
       ELSE TravelMinutes(a_name, b_name)

(***************************************************************************)
(* Time bounds of a day                                                    *)
(***************************************************************************)
Digits == {"0", "1", "2", "3", "4", "5", "6", "7", "8", "9"}

\* int() of one decimal digit
DigitVal ==
  [c \in Digits |->
     CASE c = "0" -> 0 [] c = "1" -> 1 [] c = "2" -> 2 [] c = "3" -> 3
       [] c = "4" -> 4 [] c = "5" -> 5 [] c = "6" -> 6 [] c = "7" -> 7
       [] c = "8" -> 8 [] c = "9" -> 9]

IsDigitAt(s, i) == i >= 1 /\ i <= Len(s) /\ s[i] \in Digits

IsCharAt(s, i, c) == i >= 1 /\ i <= Len(s) /\ s[i] = c

\* time_str.replace(en dash, "-").replace(em dash, "-"); the two dashes are
\* written "ndash" and "mdash"
NormalizeDashes(time_str) ==
  [i \in 1..Len(time_str) |->
     IF time_str[i] \in {"ndash", "mdash"} THEN "-" ELSE time_str[i]]

\* the regular expression (\d{1,2})h(\d{2}) tried at position i: two digits
\* for the hour first, then one digit; the result is <<length, hour, minute>>
\* or <<0>> when there is no match at i
MatchAt(s, i) ==
  IF /\ IsDigitAt(s, i) /\ IsDigitAt(s, i + 1) /\ IsCharAt(s, i + 2, "h")
     /\ IsDigitAt(s, i + 3) /\ IsDigitAt(s, i + 4)
  THEN <<5, 10 * DigitVal[s[i]] + DigitVal[s[i + 1]],
            10 * DigitVal[s[i + 3]] + DigitVal[s[i + 4]]>>
  ELSE IF /\ IsDigitAt(s, i) /\ IsCharAt(s, i + 1, "h")
          /\ IsDigitAt(s, i + 2) /\ IsDigitAt(s, i + 3)
  THEN <<4, DigitVal[s[i]],
            10 * DigitVal[s[i + 2]] + DigitVal[s[i + 3]]>>
  ELSE <<0>>

RECURSIVE FindAllFrom(_, _)
\* re.findall from position i: leftmost matches, not overlapping
FindAllFrom(s, i) ==
  IF i > Len(s) THEN <<>>
  ELSE LET m == MatchAt(s, i)
       IN IF m[1] = 0 THEN FindAllFrom(s, i + 1)
          ELSE <<<<m[2], m[3]>>>> \o FindAllFrom(s, i + m[1])

\* hour * 60 + minute of one match
MatchMinutes(m) == m[1] * 60 + m[2]

\* parse_time_range from the matches on; raised is TRUE for the ValueError
RangeOfMatches(matches) ==
  IF matches = <<>>
  THEN [raised |-> TRUE, start |-> 0, end |-> 0]
  ELSE [raised |-> FALSE,
        start |-> MatchMinutes(matches[1]),
        end |-> IF Len(matches) > 1
                THEN MatchMinutes(matches[2])
                ELSE MatchMinutes(matches[1]) + 60]

parse_time_range(time_str) ==
  RangeOfMatches(FindAllFrom(NormalizeDashes(time_str), 1))

RECURSIVE BoundsLoop(_, _, _)
\* one iteration of the loop, r being the range parsed from the head item
BoundsStep(timeline, start, end, r) ==
  IF r.raised THEN [raised |-> TRUE, start |-> 0, end |-> 0]
  ELSE BoundsLoop(Tail(timeline), Min(start, r.start), Max(end, r.end))

\* the loop of get_day_time_bounds over day.timeline, from (start, end)
BoundsLoop(timeline, start, end) ==
  IF timeline = <<>> THEN [raised |-> FALSE, start |-> start, end |-> end]
  ELSE BoundsStep(timeline, start, end,
                  parse_time_range(Head(timeline).time))

presets ==
     ("arrival" :> <<15 * 60, 23 * 60>>)
  @@ ("mayfair" :> <<9 * 60 + 30, 22 * 60>>)
  @@ ("city" :> <<9 * 60, 21 * 60 + 30>>)
  @@ ("departure" :> <<7 * 60, 12 * 60>>)

\* get_day_time_bounds after the loop over the timeline, r being the
\* result of the loop
BoundsAfterLoop(day, r) ==
  IF r.raised THEN r
  ELSE IF r.start = INF
  THEN [raised |-> FALSE,
        start |-> (IF day.theme \in DOMAIN presets
                   THEN presets[day.theme][1] ELSE 9 * 60),
        end |-> (IF day.theme \in DOMAIN presets
                 THEN presets[day.theme][2] ELSE 21 * 60)]
  ELSE LET end == IF day.theme = "city" /\ r.end < 22 * 60 + 30
                  THEN 22 * 60 + 30 ELSE r.end
       IN [raised |-> FALSE, start |-> r.start,
           end |-> Min(end, 23 * 60 + 30)]

get_day_time_bounds(day) ==
  BoundsAfterLoop(day, BoundsLoop(day.timeline, INF, -INF))

(***************************************************************************)
(* Deduplication across days.  A day is a record with fields theme,        *)
(* timeline, locations, removed_duplicates and added_essentials;           *)
(* day.index is its position in the sequence of days.                      *)
(***************************************************************************)
RECURSIVE Unique(_)
\* list(dict.fromkeys(s)): first occurrences, in order
Unique(s) ==
  IF s = <<>> THEN <<>>
  ELSE <<Head(s)>> \o Unique(Without(Tail(s), Head(s)))

RECURSIVE AllLocations(_)
\* every day's locations, one day after the other
AllLocations(ds) ==
  IF ds = <<>> THEN <<>>
  ELSE Head(ds).locations \o AllLocations(Tail(ds))

RECURSIVE IndicesFrom(_, _, _)
\* index_by_loc[name]: the index of each day, once per listing of name
IndicesFrom(ds, name, i) ==
  IF i > Len(ds) THEN <<>>
  ELSE SelectSeq([k \in 1..Len(ds[i].locations) |->
                    IF ds[i].locations[k] = name THEN i ELSE 0],
                 LAMBDA v : v # 0)
       \o IndicesFrom(ds, name, i + 1)

\* centroids[idx], computed once from the lists as they are on entry
Centroids(ds) ==
  [i \in 1..Len(ds) |->
     compute_centroid(IF ds[i].locations = <<>> THEN <<HOTEL_NAME>>
                      ELSE ds[i].locations)]

\* BestIndex taking the last index of least distance
BestIndex_LastOnTie(indices, name, centroids) ==
  LET d == [k \in 1..Len(indices) |->
              distance_between(name, centroids[indices[k]])]
  IN indices[CHOOSE k \in 1..Len(indices) :
               /\ \A j \in 1..Len(indices) : d[k] <= d[j]
               /\ \A j \in (k + 1)..Len(indices) : d[j] > d[k]]

\* min(indices, key=...): the first index of least distance
BestIndex(indices, name, centroids) ==
  LET d == [k \in 1..Len(indices) |->
              distance_between(name, centroids[indices[k]])]
  IN indices[CHOOSE k \in 1..Len(indices) :
               /\ \A j \in 1..Len(indices) : d[k] <= d[j]
               /\ \A j \in 1..(k - 1) : d[j] > d[k]]

\* DedupSkips with the test on the number of listings off by one
DedupSkips_OffByOne(name, indices) ==
  \/ Len(indices) <= 2
  \/ /\ name \notin DEDUP_WHITELIST
     /\ \/ ~Known(name)
        \/ LOCATION_MAP[name].category \notin {"transport", "hotel"}

\* DedupSkips without the test on the whitelist and the category
DedupSkips_EveryName(name, indices) == Len(indices) <= 1

\* whether the loop over index_by_loc skips the name
DedupSkips(name, indices) ==
  \/ Len(indices) <= 1
  \/ /\ name \notin DEDUP_WHITELIST
     /\ \/ ~Known(name)
        \/ LOCATION_MAP[name].category \notin {"transport", "hotel"}

\* ArrivalException testing the wrong theme
ArrivalException_WrongTheme(name, day) ==
  name = HOTEL_NAME /\ day.theme = "departure"

\* whether the arrival exception keeps the name on the day
ArrivalException(name, day) == name = HOTEL_NAME /\ day.theme = "arrival"

RECURSIVE RemoveFromLosers(_, _, _, _, _)
\* RemoveFromLosers taking the name away from the nearest day as well
RemoveFromLosers_WinnerToo(ds, name, indices, best_index, k) ==
  IF k > Len(indices) THEN ds
  ELSE LET idx == indices[k]
           day == ds[idx]
       IN IF \/ ArrivalException(name, day)
             \/ ~Contains(day.locations, name)
          THEN RemoveFromLosers(ds, name, indices, best_index, k + 1)
          ELSE RemoveFromLosers(
                 [ds EXCEPT ![idx].locations = RemoveFirst(@, name),
                            ![idx].removed_duplicates = Append(@, name)],
                 name, indices, best_index, k + 1)

\* the inner loop "for idx in indices" from position k
RemoveFromLosers(ds, name, indices, best_index, k) ==
  IF k > Len(indices) THEN ds
  ELSE LET idx == indices[k]
           day == ds[idx]
       IN IF \/ idx = best_index
             \/ ArrivalException(name, day)
             \/ ~Contains(day.locations, name)
          THEN RemoveFromLosers(ds, name, indices, best_index, k + 1)
          ELSE RemoveFromLosers(
                 [ds EXCEPT ![idx].locations = RemoveFirst(@, name),
                            ![idx].removed_duplicates = Append(@, name)],
                 name, indices, best_index, k + 1)

RECURSIVE DedupLoop(_, _, _, _)
\* the loop over index_by_loc.items(); index_by_loc and centroids come from
\* the days on entry (ds0), the removals accumulate in ds
DedupLoop(ds, names, ds0, centroids) ==
  IF names = <<>> THEN ds
  ELSE LET name == Head(names)
           indices == IndicesFrom(ds0, name, 1)
       IN IF DedupSkips(name, indices)
          THEN DedupLoop(ds, Tail(names), ds0, centroids)
          ELSE DedupLoop(
                 RemoveFromLosers(ds, name, indices,
                                  BestIndex(indices, name, centroids), 1),
                 Tail(names), ds0, centroids)

merge_duplicate_locations(ds) ==
  DedupLoop(ds, Unique(AllLocations(ds)), ds, Centroids(ds))

(***************************************************************************)
(* Essentials                                                              *)
(***************************************************************************)
RECURSIVE clean_location_list(_)
\* clean_location_list without the test on the category
clean_location_list_KeepsExcluded(candidates) ==
  IF candidates = <<>> THEN <<>>
  ELSE LET name == Head(candidates)
           rest == clean_location_list(Tail(candidates))
       IN IF ~Known(name) THEN rest
          ELSE IF name \in UNWANTED_KEYWORDS THEN rest
          ELSE <<name>> \o rest

clean_location_list(candidates) ==
  IF candidates = <<>> THEN <<>>
  ELSE LET name == Head(candidates)
           rest == clean_location_list(Tail(candidates))
       IN IF ~Known(name) THEN rest
          ELSE IF LOCATION_MAP[name].category \in EXCLUDED_CATEGORIES
          THEN rest
          ELSE IF name \in UNWANTED_KEYWORDS THEN rest
          ELSE <<name>> \o rest

RECURSIVE InsertByKey(_, _)
\* inserts the pair <<key, name>> after every pair whose key is not greater
InsertByKey(sorted, pair) ==
  IF sorted = <<>> THEN <<pair>>
  ELSE IF Head(sorted)[1] <= pair[1]
       THEN <<Head(sorted)>> \o InsertByKey(Tail(sorted), pair)
       ELSE <<pair>> \o sorted

RECURSIVE SortPairs(_, _)
SortPairs(pairs, acc) ==
  IF pairs = <<>> THEN acc
  ELSE SortPairs(Tail(pairs), InsertByKey(acc, Head(pairs)))

RECURSIVE TieOrders(_)
\* the orders of the names of a sorted sequence of pairs <<key, name>> that
\* keep the keys ascending and keep two names of one key and one position
\* in their order
TieOrders(pairs) ==
  IF pairs = <<>> THEN {<<>>}
  ELSE LET firsts ==
             {k \in 1..Len(pairs) :
                /\ pairs[k][1] = pairs[1][1]
                /\ \A j \in 1..(k - 1) :
                     Point(pairs[j][2]) # Point(pairs[k][2])}
       IN UNION {{<<pairs[k][2]>> \o t :
                    t \in TieOrders(SubSeq(pairs, 1, k - 1)
                                    \o SubSeq(pairs, k + 1, Len(pairs)))}
                 : k \in firsts}

\* sorted(names, key=distance to the point): ascending and stable.  The
\* integer distance resolves the source's distance to the centimetre; two
\* names at different positions whose distances to the point agree to the
\* centimetre may come in either order, and the result is the set of the
\* orders the source may produce.
SortByDistance(names, point) ==
  LET pairs == [i \in 1..Len(names) |->
                  <<distance_between(names[i], point), names[i]>>]
  IN TieOrders(SortPairs(pairs, <<>>))

\* EssentialAdded with the test on the category inverted
EssentialAdded_ExclusionInverted(essential, used) ==
  /\ essential \notin used
  /\ Known(essential)
  /\ LOCATION_MAP[essential].category \in EXCLUDED_CATEGORIES
  /\ essential \notin UNWANTED_KEYWORDS

\* whether the loop over essentials appends the essential
EssentialAdded(essential, used) ==
  /\ essential \notin used
  /\ Known(essential)
  /\ LOCATION_MAP[essential].category \notin EXCLUDED_CATEGORIES
  /\ essential \notin UNWANTED_KEYWORDS

RECURSIVE EssentialsLoop(_, _, _)
\* the loop over the essentials of one day; the result is <<day, used>>
EssentialsLoop(day, essentials, used) ==
  IF essentials = <<>> THEN <<day, used>>
  ELSE LET essential == Head(essentials)
       IN IF EssentialAdded(essential, used)
          THEN EssentialsLoop(
                 [day EXCEPT !.locations = Append(@, essential),
                             !.added_essentials = Append(@, essential)],
                 Tail(essentials), used \cup {essential})
          ELSE EssentialsLoop(day, Tail(essentials), used)

RECURSIVE AugmentLoop(_, _, _)
\* the loop over days from day i: the set of the possible results
AugmentLoop(ds, i, used) ==
  IF i > Len(ds) THEN {ds}
  ELSE LET day == ds[i]
           essentials == IF day.theme \in DOMAIN ESSENTIALS_BY_THEME
                         THEN ESSENTIALS_BY_THEME[day.theme] ELSE <<>>
           centroid == compute_centroid(IF day.locations = <<>>
                                        THEN <<HOTEL_NAME>>
                                        ELSE day.locations)
           r == EssentialsLoop(day, essentials, used)
           unique_locations == Unique(clean_location_list(r[1].locations))
       IN UNION {AugmentLoop(
                   [ds EXCEPT ![i] = [r[1] EXCEPT !.locations = sorted]],
                   i + 1, r[2])
                 : sorted \in SortByDistance(unique_locations, centroid)}

\* the set of the possible results of the pass
add_missing_essentials(ds) ==
  AugmentLoop(ds, 1, Range(AllLocations(ds)))

\* the loop of main between augmentation and scheduling
PostFilter(ds) ==
  [i \in 1..Len(ds) |->
     LET l1 == IF /\ Contains(ds[i].locations, "Oblix at The Shard")
                  /\ Contains(ds[i].locations, "The Shard")
               THEN Without(ds[i].locations, "The Shard")
               ELSE ds[i].locations
         l2 == IF ds[i].theme = "city" THEN Without(l1, "Hyde Park") ELSE l1
     IN [ds[i] EXCEPT !.locations = l2]]

(***************************************************************************)
(* Schedule of a day.  A segment's location is a tuple: <<name>> for a     *)
(* place, <<a, b>> for the transfer label "a -> b".                        *)
(***************************************************************************)
Segment(start, end, title, location, segment_type) ==
  [start |-> start, end |-> end, title |-> title, location |-> location,
   segment_type |-> segment_type]

\* poi_locations: the catalog locations of the day that are neither
\* transport nor hotel, without The Shard when Oblix is there too
\* the list without The Shard when it lists Oblix at The Shard too
WithoutShard(poi) ==
  IF Contains(poi, "Oblix at The Shard") /\ Contains(poi, "The Shard")
  THEN Without(poi, "The Shard")
  ELSE poi

PoiLocations(day) ==
  WithoutShard(SelectSeq(day.locations,
                         LAMBDA loc :
                           /\ Known(loc)
                           /\ LOCATION_MAP[loc].category
                                \notin {"transport", "hotel"}))

\* FirstThenOthers with the other names of poi_locations before first
FirstThenOthers_OthersFirst(first, poi_locations) ==
  SelectSeq(Unique(poi_locations), LAMBDA name : ~Contains(first, name))
  \o first

\* visits_order
\* the names of first, then the other names of poi_locations
FirstThenOthers(first, poi_locations) ==
  first \o SelectSeq(Unique(poi_locations),
                     LAMBDA name : ~Contains(first, name))

\* the order of a city day ends with Oblix at The Shard
WithDinner(day, order) ==
  IF day.theme = "city" /\ ~Contains(order, "Oblix at The Shard")
  THEN Append(order, "Oblix at The Shard")
  ELSE order

\* visits_order from poi_locations
VisitsOrderOf(day, poi_locations) ==
  WithDinner(day,
    FirstThenOthers(
      Unique(SelectSeq(IF day.theme \in DOMAIN PREFERRED_ORDER
                       THEN PREFERRED_ORDER[day.theme] ELSE <<>>,
                       LAMBDA name : Contains(poi_locations, name))),
      poi_locations))

VisitsOrder(day) == VisitsOrderOf(day, PoiLocations(day))

\* the segments of the arrival, given the three durations
ArrivalSegmentsOf(start_time, arrival_duration, travel_duration, checkin) ==
  << Segment(start_time, start_time + arrival_duration,
             "Arrivee a Heathrow", <<"Heathrow Airport">>, "transport"),
     Segment(start_time + arrival_duration,
             start_time + arrival_duration + travel_duration,
             "Vers l'hotel", <<"Heathrow Airport", HOTEL_NAME>>, "transfer"),
     Segment(start_time + arrival_duration + travel_duration,
             start_time + arrival_duration + travel_duration + checkin,
             "Installation a l'hotel", <<HOTEL_NAME>>, "visit") >>

\* ArrivalSegments without the minimum of 45 minutes for the check-in
ArrivalSegments_ShortCheckin(start_time) ==
  ArrivalSegmentsOf(start_time,
                    LOCATION_MAP["Heathrow Airport"].default_duration,
                    estimate_travel_minutes("Heathrow Airport", HOTEL_NAME),
                    LOCATION_MAP[HOTEL_NAME].default_duration)

\* the three segments that open an arrival day, from the clock start_time
ArrivalSegments(start_time) ==
  ArrivalSegmentsOf(start_time,
                    LOCATION_MAP["Heathrow Airport"].default_duration,
                    estimate_travel_minutes("Heathrow Airport", HOTEL_NAME),
                    Max(45, LOCATION_MAP[HOTEL_NAME].default_duration))

\* VisitDuration without the minimum of 30 minutes of a clamped visit
VisitDuration_NoMinimum(loc_info, current_time, end_time) ==
  LET visit_duration == IF loc_info.category = "food"
                        THEN Max(75, loc_info.default_duration)
                        ELSE Max(45, loc_info.default_duration)
  IN IF current_time + visit_duration > end_time
     THEN end_time - current_time
     ELSE visit_duration

\* the duration of the visit of a location reached at current_time
VisitDuration(loc_info, current_time, end_time) ==
  LET visit_duration == IF loc_info.category = "food"
                        THEN Max(75, loc_info.default_duration)
                        ELSE Max(45, loc_info.default_duration)
  IN IF current_time + visit_duration > end_time
     THEN Max(30, end_time - current_time)
     ELSE visit_duration

RECURSIVE VisitLoop(_, _, _)
\* the visit of the head of visits_order, st1 being the state after the
\* transfer to it
VisitAppend(visits_order, st1, end_time, visit_duration) ==
  IF visit_duration <= 0
  THEN VisitLoop(Tail(visits_order), st1, end_time)
  ELSE VisitLoop(Tail(visits_order),
         [segments |-> Append(st1.segments,
             Segment(st1.current_time,
                     st1.current_time + visit_duration,
                     Head(visits_order), <<Head(visits_order)>>,
                     IF LOCATION_MAP[Head(visits_order)].category = "food"
                     THEN "meal" ELSE "visit")),
          current_time |-> st1.current_time + visit_duration,
          previous |-> Head(visits_order)],
         end_time)

\* VisitTravel going on with the next candidate when the transfer would
\* end after end_time
VisitTravel_NextCandidate(visits_order, st, end_time, travel_duration) ==
  IF st.current_time + travel_duration > end_time
  THEN VisitLoop(Tail(visits_order), st, end_time)
  ELSE VisitAppend(visits_order,
         IF travel_duration # 0
         THEN [st EXCEPT
                 !.segments = Append(@,
                    Segment(st.current_time,
                            st.current_time + travel_duration,
                            "Trajet vers",
                            <<st.previous, Head(visits_order)>>,
                            "transfer")),
                 !.current_time = @ + travel_duration]
         ELSE st,
         end_time,
         VisitDuration(LOCATION_MAP[Head(visits_order)],
                       st.current_time + travel_duration, end_time))

\* the transfer to the head of visits_order, or the end of the loop when
\* the transfer would end after end_time
VisitTravel(visits_order, st, end_time, travel_duration) ==
  IF st.current_time + travel_duration > end_time
  THEN st
  ELSE VisitAppend(visits_order,
         IF travel_duration # 0
         THEN [st EXCEPT
                 !.segments = Append(@,
                    Segment(st.current_time,
                            st.current_time + travel_duration,
                            "Trajet vers",
                            <<st.previous, Head(visits_order)>>,
                            "transfer")),
                 !.current_time = @ + travel_duration]
         ELSE st,
         end_time,
         VisitDuration(LOCATION_MAP[Head(visits_order)],
                       st.current_time + travel_duration, end_time))

\* the loop over visits_order; st holds segments, current_time, previous
VisitLoop(visits_order, st, end_time) ==
  IF visits_order = <<>> THEN st
  ELSE IF ~Known(Head(visits_order))
  THEN VisitLoop(Tail(visits_order), st, end_time)
  ELSE VisitTravel(visits_order, st, end_time,
                   estimate_travel_minutes(st.previous, Head(visits_order)))

\* ReturnSegmentsOf with the buffer starting at the clock before the return
ReturnSegmentsOf_ClockNotAdvanced(st, end_time, travel_duration) ==
  IF st.previous # HOTEL_NAME
  THEN <<Segment(st.current_time, st.current_time + travel_duration,
                 "Retour a l'hotel", <<st.previous, HOTEL_NAME>>,
                 "transfer")>>
       \o (IF st.current_time + travel_duration < end_time
           THEN <<Segment(st.current_time, end_time,
                          "Fin de soiree detendue", <<HOTEL_NAME>>,
                          "buffer")>>
           ELSE <<>>)
  ELSE <<>>

\* the return and the buffer, given the duration of the return
ReturnSegmentsOf(st, end_time, travel_duration) ==
  IF st.previous # HOTEL_NAME
  THEN <<Segment(st.current_time, st.current_time + travel_duration,
                 "Retour a l'hotel", <<st.previous, HOTEL_NAME>>,
                 "transfer")>>
       \o (IF st.current_time + travel_duration < end_time
           THEN <<Segment(st.current_time + travel_duration, end_time,
                          "Fin de soiree detendue", <<HOTEL_NAME>>,
                          "buffer")>>
           ELSE <<>>)
  ELSE <<>>

\* the end of a day that is not a departure: back to the hotel, then a
\* buffer up to end_time
ReturnSegments(st, end_time) ==
  ReturnSegmentsOf(st, end_time,
                   estimate_travel_minutes(st.previous, HOTEL_NAME))

\* the transfer to Heathrow from the clock t1 and the formalities
DepartureTransfer(t1, transfer) ==
  << Segment(t1, t1 + transfer, "Transfert vers Heathrow",
             <<HOTEL_NAME, "Heathrow Airport">>, "transfer"),
     Segment(t1 + transfer, t1 + transfer + 45, "Formalites de depart",
             <<"Heathrow Airport">>, "transport") >>

\* DepartureSegmentsOf without the return to the hotel
DepartureSegmentsOf_NoReturn(st, back_duration, transfer) ==
  DepartureTransfer(st.current_time, transfer)

\* the segments of the departure, given the two durations
DepartureSegmentsOf(st, back_duration, transfer) ==
  (IF st.previous # HOTEL_NAME
   THEN <<Segment(st.current_time, st.current_time + back_duration,
                  "Retour a l'hotel", <<st.previous, HOTEL_NAME>>,
                  "transfer")>>
   ELSE <<>>)
  \o DepartureTransfer(IF st.previous # HOTEL_NAME
                       THEN st.current_time + back_duration
                       ELSE st.current_time,
                       transfer)

\* the end of a departure day: back to the hotel, to Heathrow, formalities
DepartureSegments(st) ==
  DepartureSegmentsOf(st,
                      estimate_travel_minutes(st.previous, HOTEL_NAME),
                      estimate_travel_minutes(HOTEL_NAME,
                                              "Heathrow Airport"))

\* segments, current_time and previous before the loop over visits_order,
\* opening being the segments of the arrival
ClockAfter(opening, start_time) ==
  [segments |-> opening,
   current_time |-> IF opening = <<>> THEN start_time
                    ELSE opening[Len(opening)].end,
   previous |-> HOTEL_NAME]

\* the segments returned, st being the result of the loop over visits_order
ClosedSegments(day, st, end_time) ==
  st.segments \o (IF day.theme # "departure"
                  THEN ReturnSegments(st, end_time)
                  ELSE DepartureSegments(st))

\* build_day_schedule from the bounds on
ScheduleWithin(day, bounds) ==
  IF bounds.raised THEN [raised |-> TRUE, segments |-> <<>>]
  ELSE [raised |-> FALSE,
        segments |->
          ClosedSegments(day,
            VisitLoop(VisitsOrder(day),
                      ClockAfter(IF day.theme = "arrival"
                                 THEN ArrivalSegments(bounds.start)
                                 ELSE <<>>,
                                 bounds.start),
                      bounds.end),
            bounds.end)]

\* raised is TRUE when get_day_time_bounds raises; no list is returned then
build_day_schedule(day) ==
  ScheduleWithin(day, get_day_time_bounds(day))

(***************************************************************************)
(* The pipeline of main as a state machine                                 *)
(***************************************************************************)
VARIABLES
  days,          \* the DaySection objects, in document order
  before,        \* the days as they were on entry of the last pass
  stage,         \* how far the pipeline has come
  merge_runs,    \* number of deduplication passes so far
  day_segments,  \* the schedules built so far, one per day, in day order
  raised         \* whether build_day_schedule raised ValueError

vars == <<days, before, stage, merge_runs, day_segments, raised>>

\* bounds of the inputs
MaxDays == 2

MaxLocs == 2

MaxVisits == 2

MaxTimeline == 2

MaxMergeRuns == 2

\* the names the text of a day of a trip may mention
TripPool == <<HOTEL_NAME, "Heathrow Airport", "London Eye">>

\* the names the text of the single day of a schedule input may mention
VisitPool ==
  {"London Eye", "Borough Market", "The Shard", "Oblix at The Shard",
   "Carnaby Street", "British Museum", "St Paul's Cathedral"}

\* the time strings of timeline items
TimeStrings ==
  { <<"1", "0", "h", "0", "0", "-", "1", "8", "h", "0", "0">>,
    <<"9", "h", "3", "0", "ndash", "2", "3", "h", "4", "5">>,
    <<"2", "2", "h", "0", "0">>,
    <<"2", "3", "h", "4", "0">>,
    <<"9", "h", "5", "-", "1", "0", "h", "0", "0">>,
    <<"a", "b", "c">> }

\* the subsequences of s of length at most n
RECURSIVE SubSeqs(_, _)
SubSeqs(s, n) ==
  IF s = <<>> \/ n = 0 THEN {<<>>}
  ELSE {<<Head(s)>> \o t : t \in SubSeqs(Tail(s), n - 1)}
       \cup SubSeqs(Tail(s), n)

\* the sequences without repetition over S of length at most n
RECURSIVE Arrangements(_, _)
Arrangements(S, n) ==
  IF n = 0 THEN {<<>>}
  ELSE {<<>>} \cup
       UNION {{<<x>> \o t : t \in Arrangements(S \ {x}, n - 1)} : x \in S}

\* the sequences over S of length at most n
RECURSIVE SeqsUpTo(_, _)
SeqsUpTo(S, n) ==
  IF n = 0 THEN {<<>>}
  ELSE {<<>>} \cup {<<x>> \o t : x \in S, t \in SeqsUpTo(S, n - 1)}

DaySection(theme, timeline, locations) ==
  [theme |-> theme, timeline |-> timeline, locations |-> locations,
   removed_duplicates |-> <<>>, added_essentials |-> <<>>]

\* a trip of several days without timeline
TripInputs ==
  UNION {[1..n -> {DaySection(th, <<>>, l) :
                     th \in Themes, l \in SubSeqs(TripPool, MaxLocs)}]
         : n \in 1..MaxDays}

\* one day with a timeline
DayInputs ==
  {<<DaySection(th, [i \in 1..Len(tl) |-> [time |-> tl[i]]], l)>> :
     th \in Themes,
     tl \in SeqsUpTo(TimeStrings, MaxTimeline),
     l \in Arrangements(VisitPool, MaxVisits)}

\* the days as parse_docx returns them; until the names found in a day's
\* text are cleaned, locations holds them (the local located of main)
Init ==
  /\ days \in TripInputs \cup DayInputs
  /\ before = days
  /\ stage = "located"
  /\ merge_runs = 0
  /\ day_segments = <<>>
  /\ raised = FALSE

\* day.locations = clean_location_list(located), for every day
CleanLocations ==
  /\ stage = "located"
  /\ before' = days
  /\ days' = [i \in 1..Len(days) |->
               [days[i] EXCEPT !.locations = clean_location_list(@)]]
  /\ stage' = "resolved"
  /\ UNCHANGED <<merge_runs, day_segments, raised>>

MergeDuplicateLocations ==
  /\ stage \in {"resolved", "deduped"}
  /\ merge_runs < MaxMergeRuns
  /\ before' = days
  /\ days' = merge_duplicate_locations(days)
  /\ merge_runs' = merge_runs + 1
  /\ stage' = "deduped"
  /\ UNCHANGED <<day_segments, raised>>

\* main augments the days after its one deduplication pass
AddMissingEssentials ==
  /\ stage = "deduped"
  /\ merge_runs = 1
  /\ before' = days
  /\ days' \in add_missing_essentials(days)
  /\ stage' = "augmented"
  /\ UNCHANGED <<merge_runs, day_segments, raised>>

MainPostFilter ==
  /\ stage = "augmented"
  /\ before' = days
  /\ days' = PostFilter(days)
  /\ stage' = "filtered"
  /\ UNCHANGED <<merge_runs, day_segments, raised>>

\* day_segments[day.index] = segments, unless build_day_schedule raised
ScheduleKept(r) ==
  /\ raised' = r.raised
  /\ day_segments' = IF r.raised THEN day_segments
                     ELSE Append(day_segments, r.segments)

\* one iteration of the scheduling loop of main, for the next day
BuildDaySchedule ==
  /\ stage \in {"filtered", "scheduling"}
  /\ ~raised
  /\ Len(day_segments) < Len(days)
  /\ ScheduleKept(build_day_schedule(days[Len(day_segments) + 1]))
  /\ stage' = "scheduling"
  /\ UNCHANGED <<days, before, merge_runs>>

Next ==
  \/ CleanLocations
  \/ MergeDuplicateLocations
  \/ AddMissingEssentials
  \/ MainPostFilter
  \/ BuildDaySchedule

Spec == Init /\ [][Next]_vars

(***************************************************************************)
(* Properties                                                              *)
(***************************************************************************)
\* the days of ds that list the name
ListingDays(ds, name) == {i \in 1..Len(ds) : Contains(ds[i].locations, name)}

\* every name listed by some day of ds
ListedNames(ds) == Range(AllLocations(ds))

\* the bounds of the i-th day
BoundsOf(i) == get_day_time_bounds(days[i])

\* C1: every segment of every schedule built ends at or before the end
\* bound of its day.
C1_SegmentsEndWithinBound ==
  \A i \in 1..Len(day_segments) :
    \A k \in 1..Len(day_segments[i]) :
      day_segments[i][k].end <= BoundsOf(i).end

\* C2: in every schedule built, the first segment starts at the day's start
\* bound, no segment ends before it starts, and each segment starts when
\* the one before it ends.
C2_SegmentsContiguous ==
  \A i \in 1..Len(day_segments) :
    LET segs == day_segments[i]
    IN /\ segs # <<>> => segs[1].start = BoundsOf(i).start
       /\ \A k \in 1..Len(segs) : segs[k].start <= segs[k].end
       /\ \A k \in 1..(Len(segs) - 1) : segs[k].end = segs[k + 1].start

\* a schedule with a transfer, a meal, a return to the hotel and a buffer
C2_Witness ==
  \E i \in 1..Len(day_segments) :
    LET segs == day_segments[i]
    IN /\ Len(segs) >= 5
       /\ \E k \in 1..Len(segs) : segs[k].segment_type = "meal"
       /\ segs[Len(segs)].segment_type = "buffer"

\* the names the deduplication pass acts on
DedupEligible(name) ==
  \/ name \in DEDUP_WHITELIST
  \/ Known(name) /\ LOCATION_MAP[name].category \in {"transport", "hotel"}

C4_DedupIdempotent ==
  (stage = "deduped" /\ merge_runs = 2) => days = before

C6_CityEndBound ==
  \A i \in 1..Len(days) :
    (days[i].theme = "city" /\ ~BoundsOf(i).raised) =>
      /\ BoundsOf(i).end >= 22 * 60 + 30
      /\ BoundsOf(i).end <= 23 * 60 + 30

\* a time string that starts with one or two digits, an "h" and two digits:
\* the pattern of a time range, a second time after a dash being optional
MatchesTimePattern(time_str) ==
  LET s == NormalizeDashes(time_str)
  IN \E n \in {1, 2} :
       /\ \A j \in 1..n : IsDigitAt(s, j)
       /\ IsCharAt(s, n + 1, "h")
       /\ IsDigitAt(s, n + 2)
       /\ IsDigitAt(s, n + 3)

\* a day with a timeline item whose time string does not match the pattern
HasMalformedTime(day) ==
  \E k \in 1..Len(day.timeline) : ~MatchesTimePattern(day.timeline[k].time)

\* C7: when a timeline item of a day has a time string that does not match
\* the time-range pattern, computing the bounds of the day raises and no
\* schedule is built for the day.
C7_MalformedTimeRaises ==
  \A i \in 1..Len(days) :
    HasMalformedTime(days[i]) =>
      /\ BoundsOf(i).raised
      /\ Len(day_segments) < i

\* the distance from the name to the centroid of day i before the pass
CentroidDistance(name, i) ==
  distance_between(name,
                   compute_centroid(IF before[i].locations = <<>>
                                    THEN <<HOTEL_NAME>>
                                    ELSE before[i].locations))

\* the earliest of the days listing the name before the pass that are
\* nearest to it
WinningDay(name) ==
  CHOOSE i \in ListingDays(before, name) :
    /\ \A j \in ListingDays(before, name) :
         CentroidDistance(name, i) <= CentroidDistance(name, j)
    /\ \A j \in ListingDays(before, name) :
         CentroidDistance(name, j) = CentroidDistance(name, i) => i <= j

\* the names appended to removed_duplicates of day i by the pass
NewlyRemoved(i) ==
  SubSeq(days[i].removed_duplicates,
         Len(before[i].removed_duplicates) + 1,
         Len(days[i].removed_duplicates))

C9_HotelStaysOnArrivalDay ==
  stage = "deduped" =>
    \A i \in 1..Len(days) :
      (before[i].theme = "arrival" /\ Contains(before[i].locations, HOTEL_NAME))
        => Contains(days[i].locations, HOTEL_NAME)

\* a pass in which another day was nearer to the hotel than an arrival day
\* that listed it
C9_Witness ==
  /\ stage = "deduped"
  /\ \E i \in ListingDays(before, HOTEL_NAME) :
       /\ before[i].theme = "arrival"
       /\ WinningDay(HOTEL_NAME) # i
       /\ Contains(days[i].locations, HOTEL_NAME)
       /\ Contains(days[WinningDay(HOTEL_NAME)].locations, HOTEL_NAME)

\* C10: the schedule of an arrival day begins with the arrival at Heathrow
\* at the start bound, the transfer to the hotel of 75 minutes and the
\* check-in of at least 45 minutes; every later visit or meal is for a
\* location of the day, not for the hotel.
C10_ArrivalOpening ==
  \A i \in 1..Len(day_segments) :
    days[i].theme = "arrival" =>
      LET segs == day_segments[i]
      IN /\ Len(segs) >= 3
         /\ segs[1].location = <<"Heathrow Airport">>
         /\ segs[1].segment_type = "transport"
         /\ segs[1].start = BoundsOf(i).start
         /\ segs[2].location = <<"Heathrow Airport", HOTEL_NAME>>
         /\ segs[2].segment_type = "transfer"
         /\ segs[2].end - segs[2].start = 75
         /\ segs[3].location = <<HOTEL_NAME>>
         /\ segs[3].segment_type = "visit"
         /\ segs[3].end - segs[3].start >= 45
         /\ \A k \in 1..Len(segs) :
              (segs[k].segment_type \in {"visit", "meal"} /\ k # 3) =>
                /\ k > 3
                /\ segs[k].location # <<HOTEL_NAME>>
                /\ Contains(days[i].locations, segs[k].location[1])

\* the schedule of an arrival day with a visit after the check-in
C10_Witness ==
  \E i \in 1..Len(day_segments) :
    /\ days[i].theme = "arrival"
    /\ \E k \in 4..Len(day_segments[i]) :
         day_segments[i][k].segment_type \in {"visit", "meal"}

\* a segment of a visit or a meal at a location of the day (the check-in of
\* an arrival day is a visit of the hotel under its own title)
IsDayVisit(seg) ==
  /\ seg.segment_type \in {"visit", "meal"}
  /\ seg.title # "Installation a l'hotel"

\* the names of the locations visited by a schedule, in its order
ScheduledNames(segs) ==
  LET v == SelectSeq(segs, IsDayVisit)
  IN [k \in 1..Len(v) |-> v[k].location[1]]

\* the names of a day's list that are neither transport nor hotel
VisitableNames(day) ==
  {n \in Range(day.locations) :
     Known(n) /\ LOCATION_MAP[n].category \notin {"transport", "hotel"}}

\* C11: on an arrival day the visits after the check-in come in
\* nearest-neighbour order from the hotel: each visit scheduled is, among
\* the day's locations not yet scheduled, one of least travel estimate from
\* the previous position.
C11_ArrivalNearestNeighbour ==
  \A i \in 1..Len(day_segments) :
    days[i].theme = "arrival" =>
      LET v == ScheduledNames(day_segments[i])
      IN \A k \in 1..Len(v) :
           \A m \in VisitableNames(days[i]) \ {v[j] : j \in 1..(k - 1)} :
             estimate_travel_minutes(IF k = 1 THEN HOTEL_NAME ELSE v[k - 1],
                                     v[k])
               <= estimate_travel_minutes(IF k = 1 THEN HOTEL_NAME
                                          ELSE v[k - 1], m)

\* C12: the schedule of a departure day ends, after its visits, with the
\* return to the hotel exactly when a visit was scheduled (the last position
\* is then not the hotel), the transfer from the hotel to Heathrow and the
\* departure formalities of 45 minutes; it has no buffer.
C12_DepartureClosing ==
  \A i \in 1..Len(day_segments) :
    days[i].theme = "departure" =>
      LET segs == day_segments[i]
          n == Len(segs)
          v == ScheduledNames(segs)
      IN /\ n >= 2
         /\ segs[n].title = "Formalites de depart"
         /\ segs[n].location = <<"Heathrow Airport">>
         /\ segs[n].segment_type = "transport"
         /\ segs[n].end - segs[n].start = 45
         /\ segs[n - 1].location = <<HOTEL_NAME, "Heathrow Airport">>
         /\ segs[n - 1].segment_type = "transfer"
         /\ \A k \in 1..n : segs[k].segment_type # "buffer"
         /\ IF v = <<>>
            THEN n = 2
            ELSE /\ n >= 4
                 /\ segs[n - 2].title = "Retour a l'hotel"
                 /\ segs[n - 2].location = <<v[Len(v)], HOTEL_NAME>>
                 /\ segs[n - 2].segment_type = "transfer"
                 /\ IsDayVisit(segs[n - 3])
                 /\ \A k \in 1..(n - 3) : segs[k].title # "Retour a l'hotel"

\* a trip with a departure day that has a visit and one that has none
C12_Witness ==
  \E i, j \in 1..Len(day_segments) :
    /\ days[i].theme = "departure"
    /\ days[j].theme = "departure"
    /\ ScheduledNames(day_segments[i]) # <<>>
    /\ ScheduledNames(day_segments[j]) = <<>>

\* the clock after the last segment of a schedule that is not the buffer
ClockBeforeBuffer(segs, start_time) ==
  LET body == SelectSeq(segs, LAMBDA seg : seg.segment_type # "buffer")
  IN IF body = <<>> THEN start_time ELSE body[Len(body)].end

\* C13: on a day that is not a departure, whenever the clock after the last
\* scheduled segment is before the end bound, the schedule ends with a
\* buffer from that clock to the end bound, also when no visit was scheduled
\* and the position is still the hotel.
C13_BufferToEndBound ==
  \A i \in 1..Len(day_segments) :
    days[i].theme # "departure" =>
      LET segs == day_segments[i]
          clock == ClockBeforeBuffer(segs, BoundsOf(i).start)
      IN clock < BoundsOf(i).end =>
           /\ segs # <<>>
           /\ segs[Len(segs)].segment_type = "buffer"
           /\ segs[Len(segs)].start = clock
           /\ segs[Len(segs)].end = BoundsOf(i).end

\* whether the override table gives different values for a pair and for
\* the reversed pair
DirectionalOverride(a, b) ==
  /\ <<a, b>> \in DOMAIN TRANSIT_OVERRIDES
  /\ <<b, a>> \in DOMAIN TRANSIT_OVERRIDES
  /\ TRANSIT_OVERRIDES[<<a, b>>] # TRANSIT_OVERRIDES[<<b, a>>]

\* the laws of the estimate for one pair of names
EstimateLaws(a, b) ==
  /\ estimate_travel_minutes(a, a) = 0
  /\ ~DirectionalOverride(a, b) =>
       estimate_travel_minutes(a, b) = estimate_travel_minutes(b, a)
  /\ (a # b /\ <<a, b>> \in DOMAIN TRANSIT_OVERRIDES) =>
       estimate_travel_minutes(a, b) = TRANSIT_OVERRIDES[<<a, b>>]
  /\ (a # b /\ <<a, b>> \notin DOMAIN TRANSIT_OVERRIDES
            /\ <<b, a>> \in DOMAIN TRANSIT_OVERRIDES) =>
       estimate_travel_minutes(a, b) = TRANSIT_OVERRIDES[<<b, a>>]

\* the laws over every pair of catalog names
CatalogEstimateLaws ==
  \A a \in DOMAIN LOCATION_MAP : \A b \in DOMAIN LOCATION_MAP :
    EstimateLaws(a, b)

\* C14: for all catalog names a and b the estimate from a to a is 0, the
\* estimate from a to b equals the estimate from b to a unless the override
\* table gives the two directions different values, and an override for the
\* pair or for the reversed pair is returned as it is; every transfer
\* scheduled lasts the estimate of its pair, which obeys these laws.
C14_EstimateSymmetric ==
  /\ CatalogEstimateLaws
  /\ \A i \in 1..Len(day_segments) :
       \A k \in 1..Len(day_segments[i]) :
         LET seg == day_segments[i][k]
         IN seg.segment_type = "transfer" =>
              /\ seg.end - seg.start
                   = estimate_travel_minutes(seg.location[1], seg.location[2])
              /\ EstimateLaws(seg.location[1], seg.location[2])

\* a schedule that goes from the hotel to a location and back from it, and
\* one that uses an override
C14_Witness ==
  \E i \in 1..Len(day_segments) :
    LET segs == day_segments[i]
    IN /\ \E k, l \in 1..Len(segs) :
            /\ segs[k].segment_type = "transfer"
            /\ segs[l].segment_type = "transfer"
            /\ segs[k].location[1] = segs[l].location[2]
            /\ segs[k].location[2] = segs[l].location[1]
            /\ segs[k].end - segs[k].start = segs[l].end - segs[l].start
            /\ <<segs[k].location[1], segs[k].location[2]>>
                 \notin DOMAIN TRANSIT_OVERRIDES
       /\ \E k \in 1..Len(segs) :
            /\ segs[k].segment_type = "transfer"
            /\ <<segs[k].location[1], segs[k].location[2]>>
                 \in DOMAIN TRANSIT_OVERRIDES

\* a catalog name that the exclusion rules drop
Excluded(name) ==
  /\ Known(name)
  /\ \/ LOCATION_MAP[name].category \in EXCLUDED_CATEGORIES
     \/ name \in UNWANTED_KEYWORDS

\* C15: from the cleaning of the names found in the text on (after
\* resolution, deduplication and augmentation), no day lists a name of an
\* excluded category or with a banned keyword, and no visit or meal of a
\* schedule is at such a location.
C15_NoExcludedLocation ==
  /\ stage # "located" =>
       \A i \in 1..Len(days) :
         \A n \in Range(days[i].locations) : ~Excluded(n)
  /\ \A i \in 1..Len(day_segments) :
       \A k \in 1..Len(day_segments[i]) :
         day_segments[i][k].segment_type \in {"visit", "meal"} =>
           ~Excluded(day_segments[i][k].location[1])

\* a day whose text named an excluded location and another one, cleaned
C15_Witness ==
  /\ stage = "resolved"
  /\ \E i \in 1..Len(days) :
       /\ \E n \in Range(before[i].locations) : Excluded(n)
       /\ days[i].locations # <<>>

\* the clock and the position after the last visit of a schedule: the end
\* of the last visit, or of the check-in of an arrival day, or the start
\* bound
ClockAfterVisits(segs, start_time) ==
  LET v == SelectSeq(segs, LAMBDA seg : seg.segment_type \in {"visit", "meal"})
  IN IF v = <<>> THEN start_time ELSE v[Len(v)].end

PositionAfterVisits(segs) ==
  LET v == ScheduledNames(segs)
  IN IF v = <<>> THEN HOTEL_NAME ELSE v[Len(v)]

\* whether the transfer from the end of the visits of schedule i to the
\* name would end after the end bound
TransferTooLate(i, name) ==
  ClockAfterVisits(day_segments[i], BoundsOf(i).start)
    + estimate_travel_minutes(PositionAfterVisits(day_segments[i]), name)
    > BoundsOf(i).end

\* C16: the visits of a schedule are the first candidates of the visit
\* order, in its order; when candidates are left, the first of them was
\* rejected because the transfer to it would end after the end bound, and
\* no later candidate has a transfer or a visit; the schedule is returned
\* all the same.
C16_StopAtFirstRejection ==
  \A i \in 1..Len(day_segments) :
    LET segs == day_segments[i]
        v == ScheduledNames(segs)
        order == VisitsOrder(days[i])
    IN /\ Len(v) <= Len(order)
       /\ v = SubSeq(order, 1, Len(v))
       /\ Len(v) < Len(order) => TransferTooLate(i, order[Len(v) + 1])
       /\ \A k \in 1..Len(segs) :
            segs[k].title = "Trajet vers" =>
              \E j \in 1..Len(v) : v[j] = segs[k].location[2]

\* a schedule whose first rejected candidate is followed by a candidate
\* that the transfer would have reached before the end bound
C16_Witness ==
  \E i \in 1..Len(day_segments) :
    LET v == ScheduledNames(day_segments[i])
        order == VisitsOrder(days[i])
    IN /\ Len(v) < Len(order)
       /\ TransferTooLate(i, order[Len(v) + 1])
       /\ \E q \in (Len(v) + 2)..Len(order) : ~TransferTooLate(i, order[q])

\* the duration of a visit of the name when nothing limits it
FullDuration(name) ==
  IF LOCATION_MAP[name].category = "food"
  THEN Max(75, LOCATION_MAP[name].default_duration)
  ELSE Max(45, LOCATION_MAP[name].default_duration)

\* C17: a visit or a meal at a location of the day lasts max(45, catalog
\* duration), max(75, catalog duration) for food, when that ends by the end
\* bound; otherwise it lasts the time left until the end bound, and 30
\* minutes when less is left; a candidate whose transfer passes the test on
\* the end bound is visited.
C17_VisitDuration ==
  \A i \in 1..Len(day_segments) :
    LET segs == day_segments[i]
    IN /\ \A k \in 1..Len(segs) :
            IsDayVisit(segs[k]) =>
              LET full == FullDuration(segs[k].location[1])
                  left == BoundsOf(i).end - segs[k].start
              IN /\ segs[k].segment_type
                      = IF LOCATION_MAP[segs[k].location[1]].category = "food"
                        THEN "meal" ELSE "visit"
                 /\ segs[k].end - segs[k].start
                      = IF full <= left THEN full
                        ELSE IF left >= 30 THEN left ELSE 30
       /\ \A k \in 1..Len(segs) :
            segs[k].title = "Trajet vers" =>
              /\ k < Len(segs)
              /\ IsDayVisit(segs[k + 1])
              /\ segs[k + 1].location[1] = segs[k].location[2]
       /\ Len(ScheduledNames(segs)) < Len(VisitsOrder(days[i])) =>
            TransferTooLate(
              i, VisitsOrder(days[i])[Len(ScheduledNames(segs)) + 1])

\* a schedule with a visit of full duration and a visit of 30 minutes that
\* starts less than 30 minutes before the end bound
C17_Witness ==
  \E i \in 1..Len(day_segments) :
    \E k, l \in 1..Len(day_segments[i]) :
      LET segs == day_segments[i]
      IN /\ IsDayVisit(segs[k])
         /\ segs[k].end - segs[k].start = FullDuration(segs[k].location[1])
         /\ segs[k].end <= BoundsOf(i).end
         /\ IsDayVisit(segs[l])
         /\ BoundsOf(i).end - segs[l].start < 30
         /\ segs[l].end - segs[l].start = 30

\* how many times a list holds a name
Occurrences(s, x) == Cardinality({k \in 1..Len(s) : s[k] = x})

IndexIn(s, x) ==
  CHOOSE k \in 1..Len(s) : s[k] = x /\ \A j \in 1..(k - 1) : s[j] # x

\* whether the name is a location of the day to visit that the preferred
\* order of the day's theme lists
Preferred(day, name) ==
  /\ name \in VisitableNames(day)
  /\ Contains(PREFERRED_ORDER[day.theme], name)

\* whether a may come before b in the visit order of the day
MayPrecede(day, a, b) ==
  IF a \notin VisitableNames(day) THEN FALSE
  ELSE IF b \notin VisitableNames(day) THEN TRUE
  ELSE IF Preferred(day, a) /\ Preferred(day, b)
       THEN IndexIn(PREFERRED_ORDER[day.theme], a)
              < IndexIn(PREFERRED_ORDER[day.theme], b)
  ELSE IF Preferred(day, a) THEN TRUE
  ELSE IF Preferred(day, b) THEN FALSE
  ELSE IndexIn(day.locations, a) < IndexIn(day.locations, b)

\* C19: the visit order of a scheduled day holds, once each, the day's
\* locations that are neither transport nor hotel: first those of the
\* theme's preferred order, in that order, then the others in the order of
\* the day's list; on a city day Oblix at The Shard comes last when the day
\* does not list it.  The visits scheduled follow this order from its start.
C19_VisitOrder ==
  \A i \in 1..Len(day_segments) :
    LET order == VisitsOrder(days[i])
        v == ScheduledNames(day_segments[i])
    IN /\ \A p, q \in 1..Len(order) : p # q => order[p] # order[q]
       /\ Range(order)
            = VisitableNames(days[i])
              \cup (IF days[i].theme = "city" THEN {"Oblix at The Shard"}
                    ELSE {})
       /\ \A p, q \in 1..Len(order) :
            p < q => MayPrecede(days[i], order[p], order[q])
       /\ Len(v) <= Len(order)
       /\ v = SubSeq(order, 1, Len(v))

\* a schedule that visits a location of the preferred order before a
\* location that the day lists earlier
C19_Witness ==
  \E i \in 1..Len(day_segments) :
    LET v == ScheduledNames(day_segments[i])
    IN \E p, q \in 1..Len(v) :
         /\ p < q
         /\ Preferred(days[i], v[p])
         /\ ~Preferred(days[i], v[q])
         /\ IndexIn(days[i].locations, v[q]) < IndexIn(days[i].locations, v[p])

\* C20: a deduplication pass loses no location: every name listed by some
\* day before the pass is listed by some day after it, and for every day
\* the locations after the pass together with the names the pass appended
\* to its removed_duplicates are its locations before the pass.
C20_DedupLosesNothing ==
  stage = "deduped" =>
    /\ ListedNames(before) \subseteq ListedNames(days)
    /\ \A i \in 1..Len(days) :
         /\ Len(days[i].removed_duplicates) >= Len(before[i].removed_duplicates)
         /\ SubSeq(days[i].removed_duplicates, 1,
                   Len(before[i].removed_duplicates))
              = before[i].removed_duplicates
         /\ \A name \in Range(before[i].locations)
                          \cup Range(days[i].locations)
                          \cup Range(NewlyRemoved(i)) :
              Occurrences(days[i].locations, name)
                + Occurrences(NewlyRemoved(i), name)
                = Occurrences(before[i].locations, name)

\* a pass that took a name away from a day that keeps another name, the
\* name taken away staying on another day
C20_Witness ==
  /\ stage = "deduped"
  /\ \E i, j \in 1..Len(days) :
       /\ i # j
       /\ NewlyRemoved(i) # <<>>
       /\ days[i].locations # <<>>
       /\ Contains(days[j].locations, NewlyRemoved(i)[1])

\* C21: for every day whose timeline entries all parse, the start bound is
\* before the end bound; the cap of the end bound at 23:30 never leaves the
\* end bound at or before the start bound.
C21_StartBeforeEnd ==
  \A i \in 1..Len(days) :
    ~BoundsOf(i).raised => BoundsOf(i).start < BoundsOf(i).end

====
